---------------------------- MODULE Spec2Model ----------------------------
(***************************************************************************)
(* Model of spline::optimization::MinCurvatureOptimizer                    *)
(* (min_curv_lib/src/curv_min.cpp).                                        *)
(*                                                                         *)
(* Numbers of type double are modelled in fixed point: the double v is     *)
(* the integer v * FP.  Products and quotients round toward zero, square   *)
(* roots round down.                                                       *)
(*                                                                         *)
(* The Hessian H_ and the gradient c_ are kept as terms over the operands  *)
(* the code computes them from (normal vectors, system inverse, control    *)
(* points); their shapes are computed as Eigen computes them.              *)
(***************************************************************************)
EXTENDS Integers, Sequences, FiniteSets

\* Resolution of the fixed-point model of double.
FP == 5

\* Largest normal_weight a caller passes to solve(), in whole units.
MaxWeight == 1

Null == [null |-> TRUE]
NoMatrix == [kind |-> "empty", n |-> 0, inv |-> 0]

---------------------------------------------------------------------------
(* double arithmetic *)

Abs(a) == IF a < 0 THEN -a ELSE a

Max(a, b) == IF a < b THEN b ELSE a

TruncDiv(a, b) == IF a >= 0 THEN a \div b ELSE -((-a) \div b)

FMul(a, b) == TruncDiv(a * b, FP)

FDiv(a, b) == TruncDiv(a * FP, b)

\* the largest r with r * r <= q, searched downward from x >= sqrt(q)
RECURSIVE Sqrt(_, _)
Sqrt(q, x) ==
    IF x * x <= q THEN x
    ELSE LET y == (x + q \div x) \div 2
         IN  Sqrt(q, IF y < x THEN y ELSE x - 1)

\* sqrt of the sum of two squares, both operands and the result in FP units
Norm2(dx, dy) == Sqrt(dx * dx + dy * dy, Abs(dx) + Abs(dy))

\* std::numeric_limits<double>::max(), larger than every distance of the model
DBL_MAX == 1000 * FP

---------------------------------------------------------------------------
(* The curve objects handed to setSplines.  A reference curve is given by  *)
(* its control points and by row 1 of its two coefficient matrices (the    *)
(* first-derivative coefficients); a boundary curve by its two end points, *)
(* between which evaluateSpline interpolates.                              *)

RefA == [cps |-> << <<0, 0>>, <<4 * FP, 0>> >>,
         bx  |-> << 2 * FP, 2 * FP >>,
         by  |-> << 0, 0 >>]

RefB == [cps |-> << <<0, 0>>, <<2 * FP, 0>>, <<4 * FP, 0>> >>,
         bx  |-> << 2 * FP, 2 * FP, 2 * FP >>,
         by  |-> << 0, 0, 0 >>]

RefC == [cps |-> << <<FP, 0>>, <<3 * FP, FP>>, <<4 * FP, 3 * FP>> >>,
         bx  |-> << 2 * FP, 3 * FP, 0 >>,
         by  |-> << 0, 4 * FP, 2 * FP >>]

WideLeft  == [p0 |-> <<-2 * FP, 3 * FP>>, p1 |-> <<6 * FP, 3 * FP>>]
WideRight == [p0 |-> <<-2 * FP, -2 * FP>>, p1 |-> <<6 * FP, -2 * FP>>]
SlantLeft  == [p0 |-> <<0, FP>>, p1 |-> <<4 * FP, 5 * FP>>]
SlantRight == [p0 |-> <<0, -FP>>, p1 |-> <<6 * FP, FP>>]

\* the (reference, left, right) curves a caller hands to setSplines
SplineSets == {<<RefA, WideLeft, WideRight>>, <<RefB, WideLeft, WideRight>>,
               <<RefB, SlantLeft, SlantRight>>, <<RefC, SlantLeft, SlantRight>>}

size(spline) == Len(spline.cps)

\* evaluateSpline(u, 0) at u = i / (n - 1)
evaluateSpline(spline, i, n) ==
    << spline.p0[1] + TruncDiv(i * (spline.p1[1] - spline.p0[1]), n - 1),
       spline.p0[2] + TruncDiv(i * (spline.p1[2] - spline.p0[2]), n - 1) >>

---------------------------------------------------------------------------
(* MinCurvatureParams *)

ParamSets ==
    [constant_system_matrix : BOOLEAN,
     num_control_points     : {3},
     num_points_evaluate    : {3},
     num_nearest            : {2},
     shrink                 : {2 * FP}]

\* values of last_point_shrink a caller passes to setUp()
ShrinkInputs == {-(FP \div 2), 0, FP \div 2, FP, FP + (FP \div 2)}

\* values of normal_weight a caller passes to solve()
Weights == {w * FP : w \in 0..MaxWeight}

VARIABLES
    NDEBUG,            \* whether the build defines NDEBUG (assert, eigen_assert off)
    params_,
    ref_spline_, left_spline_, right_spline_,
    system_inverse_,   \* number of rows (= columns) of the matrix; 0: never computed
    normal_vectors_,
    H_, c_, A_,
    lower_bound_, upper_bound_,
    solver_,
    opt_traj,          \* control points of the caller's output curve
    phase,             \* lifecycle: "Uninitialized", "Ready", "Solved"
    lastOp,            \* the most recent call and its arguments
    aborted,           \* the process was terminated (abort(), SIGSEGV)
    bd                 \* input and result of one boundary search (SpecDist only)

vars == << NDEBUG, params_, ref_spline_, left_spline_, right_spline_,
           system_inverse_, normal_vectors_, H_, c_, A_, lower_bound_,
           upper_bound_, solver_, opt_traj, phase, lastOp, aborted, bd >>

---------------------------------------------------------------------------
(* setSystemMatrixInverse: the inverse of the 4*size x 4*size continuity   *)
(* system; the model keeps its dimension.                                  *)

setSystemMatrixInverse(n) == 4 * n

---------------------------------------------------------------------------
(* computeHessianAndLinear *)

\* Eigen's normalize(): divides by the norm unless the vector is zero
normalize(v) ==
    LET z == Norm2(v[1], v[2])
    IN  IF z > 0 THEN << FDiv(v[1], z), FDiv(v[2], z) >> ELSE v

\* normal_vectors_: (-coefficients.second.row(1), coefficients.first.row(1)),
\* normalized row by row
NormalVectors(ref) ==
    [i \in 1..size(ref) |-> normalize(<< -ref.by[i], ref.bx[i] >>)]

\* T_c = 2 * A_ex * system_inverse_ and T_nx = T_c * M_x are products of a
\* (n x 4n), an (inv x inv) and a (4n x n) matrix
ProductShapesAgree(n, inv) == 4 * n = inv

\* H_ = (tmp' + tmp) / 2, an n x n matrix computed from the normal vectors and
\* the system inverse
Hessian(ref, normals, inv) ==
    [kind |-> "H", n |-> size(ref), inv |-> inv, normals |-> normals]

\* c_, a vector of length n computed from the normal vectors, the system inverse
\* and the control points (q_x, q_y)
Linear(ref, normals, inv) ==
    [kind |-> "c", n |-> size(ref), inv |-> inv, normals |-> normals,
     q |-> ref.cps]

\* what H_ and c_ hold after a product read past the end of an operand
IndeterminateDoubles == {-7 * FP, 9 * FP}

Indeterminate(n, inv, g) == [kind |-> "indeterminate", n |-> n, inv |-> inv, g |-> g]

---------------------------------------------------------------------------
(* getBoundaryDistance *)

\* left_points / right_points: num_points_evaluate samples of a boundary
SamplePoints(spline, n) == [i \in 1..n |-> evaluateSpline(spline, i - 1, n)]

\* L2_Simple_Adaptor: squared Euclidean distance
DistSq(p, q) == (p[1] - q[1]) * (p[1] - q[1]) + (p[2] - q[2]) * (p[2] - q[2])

\* knnSearch: the indices of the k nearest points, nearest first (equal
\* distances in index order)
RECURSIVE knnSearch(_, _, _, _)
knnSearch(points, q, k, found) ==
    IF Len(found) >= k \/ Len(found) >= Len(points) THEN found
    ELSE LET rest == {i \in 1..Len(points) : \A j \in 1..Len(found) : found[j] # i}
             next == CHOOSE i \in rest : \A j \in rest :
                        \/ DistSq(points[i], q) < DistSq(points[j], q)
                        \/ DistSq(points[i], q) = DistSq(points[j], q) /\ i <= j
         IN  knnSearch(points, q, k, Append(found, next))

\* std::abs(a_line * x + b_line * y + c_line) / norm_factor
Plane2PointDistance(control_point, normal_vector, p) ==
    LET a_line == -normal_vector[2]
        b_line == normal_vector[1]
        norm_factor == Norm2(a_line, b_line)
        c_line == -FMul(a_line, control_point[1]) - FMul(b_line, control_point[2])
    IN  FDiv(Abs(FMul(a_line, p[1]) + FMul(b_line, p[2]) + c_line), norm_factor)

\* (nearest_point - control_point).norm()
EuclideanDistance(control_point, p) ==
    Norm2(p[1] - control_point[1], p[2] - control_point[2])

\* (the loop, were it to keep the candidate nearest to the control point)
RECURSIVE MinDistanceLoopEuclid(_, _, _, _, _, _)
MinDistanceLoopEuclid(j, nearest_indices, points, control_point, normal_vector, acc) ==
    IF j > Len(nearest_indices) THEN acc
    ELSE LET p == points[nearest_indices[j]]
             d == EuclideanDistance(control_point, p)
         IN  MinDistanceLoopEuclid(j + 1, nearest_indices, points, control_point,
                 normal_vector,
                 IF d < acc.min_distance
                 THEN [min_plane2point_dist |-> d, min_distance |-> d]
                 ELSE acc)

\* for j in 0 .. num_nearest-1: keep the candidate of strictly smaller
\* plane2point distance, with its distance to the control point
RECURSIVE MinDistanceLoop(_, _, _, _, _, _)
MinDistanceLoop(j, nearest_indices, points, control_point, normal_vector, acc) ==
    IF j > Len(nearest_indices) THEN acc
    ELSE LET p == points[nearest_indices[j]]
             plane2point_distance == Plane2PointDistance(control_point, normal_vector, p)
         IN  MinDistanceLoop(j + 1, nearest_indices, points, control_point,
                 normal_vector,
                 IF plane2point_distance < acc.min_plane2point_dist
                 THEN [min_plane2point_dist |-> plane2point_distance,
                       min_distance |-> EuclideanDistance(control_point, p)]
                 ELSE acc)

\* (the distance, were it not clipped at 0)
BoundaryDistanceUnclipped(control_point, normal_vector, points, k, shrink) ==
    MinDistanceLoop(1, knnSearch(points, control_point, k, << >>), points,
        control_point, normal_vector,
        [min_plane2point_dist |-> DBL_MAX, min_distance |-> DBL_MAX]).min_distance
      - shrink

\* one entry of the matrix: knnSearch, the loop, then
\* distance(i, side) = std::max(0.0, min_distance - params_->shrink)
BoundaryDistance(control_point, normal_vector, points, k, shrink) ==
    Max(0, MinDistanceLoop(1, knnSearch(points, control_point, k, << >>), points,
               control_point, normal_vector,
               [min_plane2point_dist |-> DBL_MAX, min_distance |-> DBL_MAX]).min_distance
           - shrink)

\* the num_control_points x 2 matrix: column 1 left, column 2 right
getBoundaryDistance(ref, left, right, normals, params) ==
    LET left_points  == SamplePoints(left, params.num_points_evaluate)
        right_points == SamplePoints(right, params.num_points_evaluate)
    IN  [i \in 1..size(ref) |->
            << BoundaryDistance(ref.cps[i], normals[i], left_points,
                                params.num_nearest, params.shrink),
               BoundaryDistance(ref.cps[i], normals[i], right_points,
                                params.num_nearest, params.shrink) >>]

---------------------------------------------------------------------------
(* computeConstraints *)

\* (computeConstraints, were the shrink applied to every point but the first)
computeConstraintsShrinkAll(distance, last_point_shrink) ==
    LET n == Len(distance)
    IN  [A     |-> n,
         lower |-> [i \in 1..n |-> IF i = 1 THEN 0
                                   ELSE FMul(last_point_shrink, -distance[i][2])],
         upper |-> [i \in 1..n |-> IF i = 1 THEN 0
                                   ELSE FMul(last_point_shrink, distance[i][1])]]

\* A_ is the n x n identity, kept as its dimension
computeConstraints(distance, last_point_shrink) ==
    LET n  == Len(distance)
        l0 == [i \in 1..n |-> -distance[i][2]]
        u0 == [i \in 1..n |-> distance[i][1]]
        l1 == [l0 EXCEPT ![1] = 0]
        u1 == [u0 EXCEPT ![1] = 0]
    IN  [A     |-> n,
         lower |-> [l1 EXCEPT ![n] = FMul(last_point_shrink, l1[n])],
         upper |-> [u1 EXCEPT ![n] = FMul(last_point_shrink, u1[n])]]

---------------------------------------------------------------------------
(* The QP solver handle solver_ (OsqpEigen::Solver) and its data()         *)

\* solver_ after initSolver() of the optimizer: no data, no workspace
NewSolver ==
    [initialized |-> FALSE, n |-> 0, m |-> 0,
     isHessianSet |-> FALSE, hessian |-> NoMatrix,
     isConstraintsSet |-> FALSE, A |-> 0,
     isGradientSet |-> FALSE, gradient |-> NoMatrix,
     isBoundsSet |-> FALSE, lower |-> << >>, upper |-> << >>,
     status |-> "none", solution |-> << >>]

\* clearSolver(); data()->clearHessianMatrix(); data()->clearLinearConstraintsMatrix()
ClearSolver(s) ==
    [s EXCEPT !.initialized = FALSE, !.status = "none", !.solution = << >>,
              !.isHessianSet = FALSE, !.isConstraintsSet = FALSE]

\* setNumberOfVariables .. setUpperBound; a matrix that is already set is kept
LoadData(s, n, H, c, A, lower, upper) ==
    [s EXCEPT !.n = n, !.m = n,
              !.hessian = IF s.isHessianSet THEN @ ELSE H,
              !.isHessianSet = TRUE,
              !.gradient = c, !.isGradientSet = TRUE,
              !.A = IF s.isConstraintsSet THEN @ ELSE A,
              !.isConstraintsSet = TRUE,
              !.lower = lower, !.upper = upper, !.isBoundsSet = TRUE]

\* solver_->initSolver(): refuses a solver that is initialized already, data
\* that is not all set, and a lower bound above its upper bound
InitSolver(s) ==
    IF  /\ ~s.initialized
        /\ s.isHessianSet /\ s.isConstraintsSet /\ s.isGradientSet /\ s.isBoundsSet
        /\ \A i \in 1..s.n : s.lower[i] <= s.upper[i]
    THEN [s EXCEPT !.initialized = TRUE]
    ELSE s

\* a solution of the box-constrained problem lies within the bounds
Solutions(s) == {s.lower, s.upper}

\* the iterate left when the iteration limit is reached need not
Iterates(s) == {[i \in 1..s.n |-> s.upper[i] + FP]}

\* solver_->solveProblem(): the states the solver can be left in
SolveProblem(s) ==
    IF ~s.initialized THEN {[s EXCEPT !.status = "not_init"]}
    ELSE {[s EXCEPT !.status = "solved", !.solution = x] : x \in Solutions(s)}
         \cup {[s EXCEPT !.status = "max_iter", !.solution = x] : x \in Iterates(s)}

\* solver_->getSolution(): without a workspace it reads through a null
\* pointer; the process ends (ok = FALSE), or a vector with nothing of the
\* solver's in it is returned
GetSolution(s) ==
    IF s.initialized THEN {[ok |-> TRUE, x |-> s.solution]}
    ELSE {[ok |-> FALSE, x |-> << >>], [ok |-> TRUE, x |-> << >>]}

---------------------------------------------------------------------------
(* Construction *)

OutputCurve0 == << <<FP, FP>>, <<2 * FP, FP>> >>

\* MinCurvatureOptimizer(std::unique_ptr<MinCurvatureParams>)
Construct ==
    /\ NDEBUG \in BOOLEAN
    /\ params_ \in ParamSets
    /\ ref_spline_ = Null /\ left_spline_ = Null /\ right_spline_ = Null
    /\ system_inverse_ = IF params_.constant_system_matrix
                         THEN setSystemMatrixInverse(params_.num_control_points)
                         ELSE 0
    /\ normal_vectors_ = << >>
    /\ H_ = NoMatrix /\ c_ = NoMatrix /\ A_ = 0
    /\ lower_bound_ = << >> /\ upper_bound_ = << >>
    /\ solver_ = NewSolver
    /\ opt_traj = OutputCurve0
    /\ phase = "Uninitialized"
    /\ lastOp = [op |-> "construct"]
    /\ aborted = FALSE

NoSearch == [done |-> FALSE]

Init == Construct /\ bd = NoSearch

---------------------------------------------------------------------------
(* setSplines *)

SetSplines(ref_spline, left_spline, right_spline) ==
    /\ ~aborted
    /\ ref_spline_' = ref_spline
    /\ left_spline_' = left_spline
    /\ right_spline_' = right_spline
    /\ lastOp' = [op |-> "setSplines"]
    /\ UNCHANGED << NDEBUG, params_, system_inverse_, normal_vectors_, H_, c_, A_,
                    lower_bound_, upper_bound_, solver_, opt_traj, phase,
                    aborted, bd >>

---------------------------------------------------------------------------
(* setUp / setupQP *)

\* assert(last_point_shrink >= 0.0 && last_point_shrink <= 1.0)
AssertHolds(last_point_shrink) == last_point_shrink >= 0 /\ last_point_shrink <= FP

\* the process ends inside a call
Terminate ==
    /\ aborted' = TRUE
    /\ UNCHANGED << NDEBUG, params_, ref_spline_, left_spline_, right_spline_,
                    system_inverse_, normal_vectors_, H_, c_, A_, lower_bound_,
                    upper_bound_, solver_, opt_traj, phase, lastOp, bd >>

\* system_inverse_ as computeHessianAndLinear multiplies it
SystemInverseUsed ==
    IF params_.constant_system_matrix THEN system_inverse_
    ELSE setSystemMatrixInverse(size(ref_spline_))

\* the rest of setupQP once computeHessianAndLinear has left H and c:
\* computeConstraints, then the data handed to the solver
SetUpCompletes(last_point_shrink, normals, distance, H, c) ==
    LET cons == computeConstraints(distance, last_point_shrink)
    IN  /\ normal_vectors_' = normals
        /\ system_inverse_' = SystemInverseUsed
        /\ H_' = H
        /\ c_' = c
        /\ A_' = cons.A
        /\ lower_bound_' = cons.lower
        /\ upper_bound_' = cons.upper
        /\ solver_' = LoadData(ClearSolver(solver_), size(ref_spline_), H, c,
                               cons.A, cons.lower, cons.upper)
        /\ phase' = "Ready"
        /\ lastOp' = [op |-> "setUp", s |-> last_point_shrink]
        /\ UNCHANGED << NDEBUG, params_, ref_spline_, left_spline_, right_spline_,
                        opt_traj, aborted, bd >>

\* the assertion fails
SetUpAssertFails(last_point_shrink) ==
    /\ ~aborted
    /\ ~NDEBUG
    /\ ~AssertHolds(last_point_shrink)
    /\ Terminate

\* ref_spline_->size() on the null shared_ptr
SetUpNoSplines(last_point_shrink) ==
    /\ ~aborted
    /\ NDEBUG \/ AssertHolds(last_point_shrink)
    /\ ref_spline_ = Null
    /\ Terminate

\* setUp(last_point_shrink), for each last_point_shrink of ShrinkInputs
SetUpOk ==
    /\ ~aborted
    /\ ref_spline_ # Null
    /\ ProductShapesAgree(size(ref_spline_), SystemInverseUsed)
    /\ LET normals  == NormalVectors(ref_spline_)
           distance == getBoundaryDistance(ref_spline_, left_spline_,
                                           right_spline_, normals, params_)
       IN  \E last_point_shrink \in ShrinkInputs :
              /\ NDEBUG \/ AssertHolds(last_point_shrink)
              /\ SetUpCompletes(last_point_shrink, normals, distance,
                     Hessian(ref_spline_, normals, SystemInverseUsed),
                     Linear(ref_spline_, normals, SystemInverseUsed))

\* eigen_assert on the shapes of A_ex * system_inverse_
SetUpShapeAssertFails(last_point_shrink) ==
    /\ ~aborted
    /\ ~NDEBUG
    /\ AssertHolds(last_point_shrink)
    /\ ref_spline_ # Null
    /\ ~ProductShapesAgree(size(ref_spline_), SystemInverseUsed)
    /\ Terminate

\* without eigen_assert the product reads past the end of an operand: the
\* process ends ...
SetUpShapeUncheckedCrashes(last_point_shrink) ==
    /\ ~aborted
    /\ NDEBUG
    /\ ref_spline_ # Null
    /\ ~ProductShapesAgree(size(ref_spline_), SystemInverseUsed)
    /\ Terminate

\* ... or H_ and c_ hold what was read
SetUpShapeUnchecked ==
    /\ ~aborted
    /\ NDEBUG
    /\ ref_spline_ # Null
    /\ ~ProductShapesAgree(size(ref_spline_), SystemInverseUsed)
    /\ LET normals  == NormalVectors(ref_spline_)
           distance == getBoundaryDistance(ref_spline_, left_spline_,
                                           right_spline_, normals, params_)
       IN  \E last_point_shrink \in ShrinkInputs, g \in IndeterminateDoubles :
              SetUpCompletes(last_point_shrink, normals, distance,
                  Indeterminate(size(ref_spline_), SystemInverseUsed, g),
                  Indeterminate(size(ref_spline_), SystemInverseUsed, g))

---------------------------------------------------------------------------
(* solve *)

\* the loop reads solution(i) and normal_vectors_(i, .) for i < ref_spline_->size()
IndicesInRange(ref, solution, normals) ==
    size(ref) <= Len(solution) /\ size(ref) <= Len(normals)

\* optimized_control_points; g stands for what a read past the end returns
OptimizedControlPoints(ref, solution, normals, g) ==
    [i \in 1..size(ref) |->
        IF i <= Len(solution) /\ i <= Len(normals)
        THEN << ref.cps[i][1] + FMul(solution[i], normals[i][1]),
                ref.cps[i][2] + FMul(solution[i], normals[i][2]) >>
        ELSE << g, g >>]

\* Eigen::VectorXd solution = normal_weight * solver_->getSolution()
Scaled(normal_weight, x) == [i \in 1..Len(x) |-> FMul(normal_weight, x[i])]

SolveWrites(s, points, normal_weight) ==
    /\ opt_traj' = points
    /\ solver_' = s
    /\ phase' = IF phase = "Uninitialized" THEN phase ELSE "Solved"
    /\ lastOp' = [op |-> "solve", w |-> normal_weight]
    /\ UNCHANGED << NDEBUG, params_, ref_spline_, left_spline_, right_spline_,
                    system_inverse_, normal_vectors_, H_, c_, A_, lower_bound_,
                    upper_bound_, aborted, bd >>

\* what solve() has in hand after initSolver(), solveProblem(), getSolution():
\* the solver's state s and the vector x (ok = FALSE: the process ended)
SolverRuns ==
    UNION {{[s |-> s, ok |-> r.ok, x |-> r.x] : r \in GetSolution(s)} :
              s \in SolveProblem(InitSolver(solver_))}

\* getSolution() reads through a null pointer and the process ends
SolveNoWorkspace(normal_weight) ==
    /\ ~aborted
    /\ \E run \in SolverRuns : ~run.ok
    /\ Terminate

\* ref_spline_->size() on the null shared_ptr
SolveNoSplines(normal_weight) ==
    /\ ~aborted
    /\ \E run \in SolverRuns : run.ok
    /\ ref_spline_ = Null
    /\ Terminate

SolveOk(normal_weight) ==
    /\ ~aborted
    /\ ref_spline_ # Null
    /\ \E run \in SolverRuns :
          /\ run.ok
          /\ IndicesInRange(ref_spline_, run.x, normal_vectors_)
          /\ SolveWrites(run.s,
                 OptimizedControlPoints(ref_spline_, Scaled(normal_weight, run.x),
                                        normal_vectors_, 0),
                 normal_weight)

\* eigen_assert on the index of solution(i) or normal_vectors_(i, 0)
SolveIndexAssertFails(normal_weight) ==
    /\ ~aborted
    /\ ~NDEBUG
    /\ ref_spline_ # Null
    /\ \E run \in SolverRuns :
          run.ok /\ ~IndicesInRange(ref_spline_, run.x, normal_vectors_)
    /\ Terminate

\* without eigen_assert the loop reads past the end: the process ends ...
SolveIndexUncheckedCrashes(normal_weight) ==
    /\ ~aborted
    /\ NDEBUG
    /\ ref_spline_ # Null
    /\ \E run \in SolverRuns :
          run.ok /\ ~IndicesInRange(ref_spline_, run.x, normal_vectors_)
    /\ Terminate

\* ... or the points are computed from what was read
SolveIndexUnchecked(normal_weight, g) ==
    /\ ~aborted
    /\ NDEBUG
    /\ ref_spline_ # Null
    /\ \E run \in SolverRuns :
          /\ run.ok
          /\ ~IndicesInRange(ref_spline_, run.x, normal_vectors_)
          /\ SolveWrites(run.s,
                 OptimizedControlPoints(ref_spline_, Scaled(normal_weight, run.x),
                                        normal_vectors_, g),
                 normal_weight)

---------------------------------------------------------------------------

Next ==
    \/ \E set \in SplineSets : SetSplines(set[1], set[2], set[3])
    \/ \E s \in ShrinkInputs : SetUpAssertFails(s)
    \/ \E s \in ShrinkInputs : SetUpNoSplines(s)
    \/ SetUpOk
    \/ \E s \in ShrinkInputs : SetUpShapeAssertFails(s)
    \/ \E s \in ShrinkInputs : SetUpShapeUncheckedCrashes(s)
    \/ SetUpShapeUnchecked
    \/ \E w \in Weights : SolveNoWorkspace(w)
    \/ \E w \in Weights : SolveNoSplines(w)
    \/ \E w \in Weights : SolveOk(w)
    \/ \E w \in Weights : SolveIndexAssertFails(w)
    \/ \E w \in Weights : SolveIndexUncheckedCrashes(w)
    \/ \E w \in Weights, g \in IndeterminateDoubles : SolveIndexUnchecked(w, g)

Spec == Init /\ [][Next]_vars

---------------------------------------------------------------------------
(* One boundary search of getBoundaryDistance on its own: a control point, *)
(* its normal vector and the samples of one boundary, drawn from a grid.   *)

\* half-width of the grid the boundary samples are drawn from, in whole units
MaxCoord == 1

GridPoints == {<< x * FP, y * FP >> : x \in (-MaxCoord)..MaxCoord, y \in 1..2}

SearchInputs ==
    [control_point : {<<0, 0>>},
     normal_vector : {normalize(<<0, 2 * FP>>), normalize(<<-4 * FP, 3 * FP>>),
                      normalize(<<3 * FP, 4 * FP>>)},
     points        : [1..3 -> GridPoints],
     k             : 1..3,
     shrink        : {0, FP + FP \div 2},
     done          : {FALSE},
     distance      : {0}]

DistInit ==
    /\ Construct
    /\ ~NDEBUG
    /\ ~params_.constant_system_matrix
    /\ bd \in SearchInputs

BoundarySearch ==
    /\ ~bd.done
    /\ bd' = [bd EXCEPT !.done = TRUE,
                        !.distance = BoundaryDistance(bd.control_point,
                                         bd.normal_vector, bd.points, bd.k, bd.shrink)]
    /\ UNCHANGED << NDEBUG, params_, ref_spline_, left_spline_, right_spline_,
                    system_inverse_, normal_vectors_, H_, c_, A_, lower_bound_,
                    upper_bound_, solver_, opt_traj, phase, lastOp, aborted >>

SpecDist == DistInit /\ [][BoundarySearch]_vars

---------------------------------------------------------------------------
(* Properties *)

SetUpDone == lastOp.op = "setUp"

SolveDone == lastOp.op = "solve"

\* the clearances of the current splines, computed afresh
Clearance ==
    getBoundaryDistance(ref_spline_, left_spline_, right_spline_,
                        NormalVectors(ref_spline_), params_)

\* C1: a solve() whose solver run did not end in an optimal solution leaves
\* the output curve as it was.
C1_FailedSolveWritesNothing ==
    [][(SolveDone' /\ solver_'.status # "solved") => opt_traj' = opt_traj]_vars

\* C2: as long as no setUp() has completed, nothing is written into the
\* output curve.
C2_NoOutputBeforeSetUp ==
    phase = "Uninitialized" => opt_traj = OutputCurve0

\* C3: once setUp() has completed the first point's bounds are both 0, and
\* after every following solve() the first control point of the output is
\* the first control point of the reference.
C3_FirstPointFixed ==
    /\ phase # "Uninitialized" =>
          /\ lower_bound_[1] = 0 /\ upper_bound_[1] = 0
          /\ solver_.lower[1] = 0 /\ solver_.upper[1] = 0
    /\ (SolveDone /\ phase = "Solved") => opt_traj[1] = ref_spline_.cps[1]

\* C4: after setUp(s) on N >= 2 control points the last point's bounds are
\* both 0 when s = 0 and [-right, left] when s = 1, and every interior
\* point's bounds are [-right, left] whatever s is.
C4_LastPointScaledInteriorNot ==
    SetUpDone =>
        LET N == size(ref_spline_)
        IN  /\ N >= 2
            /\ lastOp.s = 0 => lower_bound_[N] = 0 /\ upper_bound_[N] = 0
            /\ lastOp.s = FP => /\ lower_bound_[N] = -Clearance[N][2]
                                /\ upper_bound_[N] = Clearance[N][1]
            /\ \A i \in 2..(N - 1) : /\ lower_bound_[i] = -Clearance[i][2]
                                     /\ upper_bound_[i] = Clearance[i][1]

\* setUp(0) has collapsed a last point that has room on both sides, next to
\* an interior point that keeps its room
C4_Witness ==
    /\ SetUpDone /\ lastOp.s = 0 /\ size(ref_spline_) = 3
    /\ Clearance[3][1] > 0 /\ Clearance[3][2] > 0
    /\ upper_bound_[3] = 0 /\ lower_bound_[3] = 0
    /\ upper_bound_[2] > 0

\* C5: the inverse multiplied into the objective by setUp() has 4N rows and
\* columns, N the number of control points of the reference spline.
C5_InverseMatchesSpline ==
    SetUpDone => /\ H_.inv = 4 * size(ref_spline_)
                 /\ c_.inv = 4 * size(ref_spline_)

\* C6: a setUp() that follows a setUp() with the same splines and the same
\* shrink leaves H_, c_, A_, the bounds and the solver's data as they were.
C6_SetUpIdempotent ==
    [][(SetUpDone /\ lastOp' = lastOp) =>
          /\ H_' = H_ /\ c_' = c_ /\ A_' = A_
          /\ lower_bound_' = lower_bound_ /\ upper_bound_' = upper_bound_
          /\ solver_' = solver_]_vars

\* C7: no setUp(s) with s < 0 or s > 1 completes, so that no bounds of such
\* an s are loaded into the solver.
C7_ShrinkOutOfRangeRejected ==
    SetUpDone => AssertHolds(lastOp.s)

\* the candidates of a search in query order, and the first of them of
\* minimal perpendicular distance
Candidates == knnSearch(bd.points, bd.control_point, bd.k, << >>)

Perpendicular(j) ==
    Plane2PointDistance(bd.control_point, bd.normal_vector, bd.points[Candidates[j]])

Selected ==
    CHOOSE j \in 1..Len(Candidates) :
        /\ \A m \in 1..Len(Candidates) : Perpendicular(j) <= Perpendicular(m)
        /\ \A m \in 1..(j - 1) : Perpendicular(m) > Perpendicular(j)

\* C8: the clearance of a search is the distance from the control point to
\* the first of the k nearest samples that has the least perpendicular
\* distance to the normal line, less the margin, and never below 0.
C8_ClearanceOfSelected ==
    bd.done =>
        /\ Len(Candidates) = bd.k
        /\ bd.distance =
              Max(0, EuclideanDistance(bd.control_point,
                         bd.points[Candidates[Selected]]) - bd.shrink)
        /\ bd.distance >= 0

\* a search whose selected sample is not the nearest one and leaves room
C8_Witness ==
    /\ bd.done /\ bd.k >= 2 /\ Selected > 1 /\ bd.distance > 0
    /\ EuclideanDistance(bd.control_point, bd.points[Candidates[Selected]])
          > EuclideanDistance(bd.control_point, bd.points[Candidates[1]])

\* C9: after setUp(s) with 0 <= s <= 1 every point's lower bound is at most
\* 0 and its upper bound at least 0, in the optimizer and in the solver.
C9_ZeroFeasible ==
    (SetUpDone /\ AssertHolds(lastOp.s)) =>
        \A i \in 1..size(ref_spline_) :
            /\ lower_bound_[i] <= 0 /\ 0 <= upper_bound_[i]
            /\ solver_.lower[i] <= 0 /\ 0 <= solver_.upper[i]

\* the margin exceeds the raw distance of one point, and another has room
C9_Witness ==
    /\ SetUpDone /\ lastOp.s = FP
    /\ \E i \in 2..size(ref_spline_) :
          /\ BoundaryDistanceUnclipped(ref_spline_.cps[i], normal_vectors_[i],
                 SamplePoints(right_spline_, params_.num_points_evaluate),
                 params_.num_nearest, params_.shrink) < 0
          /\ lower_bound_[i] = 0
    /\ \E i \in 2..size(ref_spline_) : upper_bound_[i] > 0

\* C10: the control points, the normals and the solution a solve() has
\* combined all belong to the reference spline of the latest setUp().
C10_SolveUsesSetUpSpline ==
    (SolveDone /\ phase = "Solved") =>
        /\ Len(normal_vectors_) = size(ref_spline_)
        /\ solver_.n = size(ref_spline_)
        /\ normal_vectors_ = NormalVectors(ref_spline_)
        /\ c_.kind = "c" => c_.q = ref_spline_.cps

===========================================================================
